---- MODULE Spec2Model ----
(***************************************************************************)
(* The paginated, filtered fetch state machine of the StayHunt client.     *)
(* Three screens implement it independently: the listings screen           *)
(* (ListingScreen), the property-home screen (HomeScreen with a search     *)
(* box) and the location-detail screen (LocationDetailScreen).  The        *)
(* location-home screen (HomeScreen with the location tree) fetches the    *)
(* locations summary only.  One behaviour of the model is one mounted      *)
(* screen.  Spec explores pagination, TreeSpec the listings filter tree,   *)
(* StarsSpec the star row, LinkSpec the action buttons of a card,          *)
(* ParamsSpec the listings screen with every control that sets a filter,   *)
(* ClearSpec the same screen with its Clear button,                        *)
(* ExpandSpec the expansion toggles and LocHomeSpec the location-home      *)
(* screen, whose first render throws.                                      *)
(*                                                                         *)
(* A handler runs to its first await as one step; the continuation after   *)
(* the awaited fetch (success path or catch, then finally) is one step.    *)
(* An effect that a state change schedules runs in the step of the handler *)
(* that changed the state.  The promise Linking.openURL returns settles in *)
(* a step of its own.                                                      *)
(***************************************************************************)
EXTENDS Integers, Sequences, FiniteSets, Bags, TLC

\* ---------------------------------------------------------------- bounds
\* Generations (mount, filter changes, refreshes) explored in one behaviour.
MaxGen == 2
\* Properties requests in flight at once.
MaxInflight == 2
\* Highest page cursor explored.
MaxPage == 2
\* Taps on leaves of the listings filter tree explored in one behaviour.
MaxTaps == 2
\* Refreshes a behaviour may issue beyond the generations of MaxGen.
MaxRefreshes == 1
\* Longest phone number explored, in characters.
MaxPhoneLen == 3
\* openURL promises awaiting their settlement at the same time.
MaxLinks == 2
\* Ratings are explored in steps of 1 / RatingScale (tenths).
RatingScale == 10
\* Items on one full page of a response (the backend's page size, scaled).
PageItems == 1
\* Largest total_pages a response reports.
MaxTotalPages == 2

\* ------------------------------------------------------- program constants
\* Glyphs of a star row: `5 - Math.ceil(rating)`.
StarCount == 5
ListingPerPage == 20
HomePerPage == 10
DetailPerPage == 10

\* The screens with a paginated properties list, and the location-home screen.
PagedScreens == {"listings", "propertyHome", "locationDetail"}
Screens == PagedScreens \cup {"locationHome"}

\* Route parameter of the location-detail screen.
locationName == "Dooars"

\* Texts typed into a search box.
SearchTexts == {"", "hill"}

\* What GET /api/locations answers (sub_locations: one-entry objects).
LocationsData ==
  << [location |-> "Dooars", count |-> 3,
      sub_locations |-> << [name |-> "Chalsa", count |-> 1],
                           [name |-> "Lataguri", count |-> 2] >>],
     [location |-> "Darjeeling Hills", count |-> 1,
      sub_locations |-> << [name |-> "Mirik", count |-> 1] >>] >>

\* Texts typed into the search box of the location-home screen: empty, blank,
\* lower case, mixed case, and one that matches no location.
LocHomeSearchTexts == {"", " ", "hill", "Hill", "goa"}

\* What GET /api/locations answers to the location-home screen: the summary,
\* or a later one from which the first location has gone.
LocationsAnswers == {LocationsData, Tail(LocationsData)}

\* String.prototype.toLowerCase on the location names and search texts in use.
ToLowerCase(s) ==
  CASE s = "Dooars" -> "dooars"
    [] s = "Darjeeling Hills" -> "darjeeling hills"
    [] s = "Hill" -> "hill"
    [] OTHER -> s

\* String.prototype.includes on lower-cased location names and search texts.
Includes(s, q) ==
  \/ q = ""
  \/ s = q
  \/ s = "darjeeling hills" /\ q \in {"hill", " "}

\* String.prototype.trim on the search texts in use (one is a single blank).
Trim(s) == IF s = " " THEN "" ELSE s

\* Number.prototype.toString for a non-negative integer.
RECURSIVE NumToString(_)
NumToString(n) ==
  LET d == <<"0", "1", "2", "3", "4", "5", "6", "7", "8", "9">>
  IN IF n < 10 THEN d[n + 1] ELSE NumToString(n \div 10) \o d[(n % 10) + 1]

\* ----------------------------------------------------------------- state
VARIABLES
  screen,               \* which screen this behaviour is
  mounted,              \* the mount effects have run
  properties,           \* accumulated list
  loading, refreshing,  \* busy flags
  page,                 \* page cursor
  hasMore, total,
  filters,              \* listings: FilterState
  searchQuery,          \* property-home: search text
  selectedSubLocation,  \* location-detail: selected sub-location
  locations,            \* listings: locations summary
  subLocations,         \* location-detail: sub-location tree
  inflight,             \* bag of properties requests awaiting their response
  locInflight,          \* number of locations requests awaiting their response
  gen,                  \* history: filter generation (mount, filter change, refresh)
  genPages,             \* history: page -> item count, successes of this generation
  lastTotalPages,       \* history: total_pages of the last successful response, -1 if none
  sequential,           \* history: this generation's loads were strictly sequential
  ignored,              \* history: the last handler invoked returned at its guard
  alert,                \* message of the Alert.alert raised by the last step, "" if none
  rating, stars,        \* property card: the rating rendered last and its glyphs
  opened,               \* URL handed to Linking.openURL last, Null if none
  openURLPending,       \* bag of openURL promises not settled yet, by the handler that made them
  unhandled,            \* the last link step was a rejection no handler caught
  tappedPhone,          \* history: the phone number the last call or WhatsApp tap passed
  filteredLocations,    \* location-home: the locations the search text keeps
  expandedSections,     \* listings: section or location-node key -> expanded
  expandedLocations,    \* location-home: location name -> expanded
  crashed,              \* the first render of the screen threw; nothing is mounted
  effectPending         \* location-home: a commit's search filter effect has not run yet

\* What a property card renders and hands to the platform.
cardVars == << rating, stars, opened, openURLPending, unhandled, tappedPhone >>

\* The expansion state of the filter tree and of the location tree.
treeVars == << expandedSections, expandedLocations >>

\* The render outcome of the location-home screen and its scheduled effect.
homeVars == << crashed, effectPending >>

vars == << screen, mounted, properties, loading, refreshing, page, hasMore, total,
           filters, searchQuery, selectedSubLocation, locations, subLocations,
           inflight, locInflight, gen, genPages, lastTotalPages, sequential, ignored,
           alert, cardVars, filteredLocations, treeVars, homeVars >>

\* The state the user sees and the requests outstanding (no history variables).
programState == << properties, loading, refreshing, page, hasMore, total,
                   filters, searchQuery, selectedSubLocation, locations,
                   subLocations, inflight, locInflight >>

\* min_rating is number | null: << >> is null, << n >> the number n.
Null == << >>

\* useState of expandedSections: the location section is open.
InitialSections ==
  ("location" :> TRUE) @@ ("price" :> FALSE) @@ ("classification" :> FALSE)

\* useState of expandedLocations: the empty object {}.
NoneExpanded == [k \in {} |-> FALSE]

\* No card has been rendered yet.
NoRating == -1

\* Alert.alert('Error', ...) of the catch in fetchProperties.
LoadFailedMessage == "Failed to load properties. Please try again."

\* Alert.alert('Error', ...) of the catch in the location-home fetchLocations.
LocationsFailedMessage == "Failed to load locations. Please try again."

DefaultFilters ==
  [search |-> "", location |-> "", sub_location |-> "", category |-> "",
   min_rating |-> Null, sort_by |-> "reviews_desc"]

EmptyPages == [p \in {} |-> 0]

\* ------------------------------------------------------ request parameters
\* `cond && {key: value}` spread into the URLSearchParams initialiser.
Opt(cond, key, value) == IF cond THEN key :> value ELSE [k \in {} |-> ""]

\* JavaScript truthiness of min_rating: null and 0 are falsy.
Truthy(v) == v # Null /\ v[1] # 0

\* Mutant of ListingParams: the search text is never sent.
ListingParamsWithoutSearch(pageNum, newFilters) ==
  ("page" :> NumToString(pageNum)) @@ ("per_page" :> NumToString(ListingPerPage))
  @@ ("sort_by" :> newFilters.sort_by)
  @@ Opt(newFilters.location # "", "location", newFilters.location)
  @@ Opt(newFilters.sub_location # "", "sub_location", newFilters.sub_location)
  @@ Opt(newFilters.category # "", "category", newFilters.category)
  @@ Opt(Truthy(newFilters.min_rating), "min_rating",
         IF Truthy(newFilters.min_rating) THEN NumToString(newFilters.min_rating[1]) ELSE "")

ListingParams(pageNum, newFilters) ==
  ("page" :> NumToString(pageNum)) @@ ("per_page" :> NumToString(ListingPerPage))
  @@ ("sort_by" :> newFilters.sort_by)
  @@ Opt(newFilters.search # "", "search", newFilters.search)
  @@ Opt(newFilters.location # "", "location", newFilters.location)
  @@ Opt(newFilters.sub_location # "", "sub_location", newFilters.sub_location)
  @@ Opt(newFilters.category # "", "category", newFilters.category)
  @@ Opt(Truthy(newFilters.min_rating), "min_rating",
         IF Truthy(newFilters.min_rating) THEN NumToString(newFilters.min_rating[1]) ELSE "")

HomeParams(pageNum, query) ==
  ("page" :> NumToString(pageNum)) @@ ("per_page" :> NumToString(HomePerPage))
  @@ ("sort_by" :> "rating_desc")
  @@ Opt(query # "", "search", query)

DetailParams(pageNum, subLocation) ==
  ("page" :> NumToString(pageNum)) @@ ("per_page" :> NumToString(DetailPerPage))
  @@ ("location" :> locationName)
  @@ ("sort_by" :> "reviews_desc")
  @@ Opt(subLocation # "", "sub_location", subLocation)

\* The filter value the handlers of this screen pass to fetchProperties.
CurrentQuery ==
  CASE screen = "listings" -> filters
    [] screen = "propertyHome" -> searchQuery
    [] OTHER -> selectedSubLocation

ParamsOf(pageNum, q) ==
  CASE screen = "listings" -> ListingParams(pageNum, q)
    [] screen = "propertyHome" -> HomeParams(pageNum, q)
    [] OTHER -> DetailParams(pageNum, q)

\* One call of fetchProperties suspended at `await fetch(...)`: its arguments,
\* the query string it sent, and the generation it was issued under.
Request(pageNum, q, isRefresh, g) ==
  [pageNum |-> pageNum, params |-> ParamsOf(pageNum, q),
   isRefresh |-> isRefresh, gen |-> g]

Pending == BagToSet(inflight)

\* Bodies of a 2xx answer of GET /api/properties to request r, for a backend
\* that holds total_pages full pages when it answers: n items (none past the
\* last page), total, total_pages.
Responses(r) ==
  { [n |-> IF r.pageNum <= tp THEN PageItems ELSE 0,
     total |-> tp * PageItems,
     total_pages |-> tp] : tp \in 0..MaxTotalPages }

\* The n items of page p as fetched under generation g, in the order received.
PageList(g, p, n) == [i \in 1..n |-> << g, p, i >>]

\* data.properties of the answer to request r.
Items(r, n) == PageList(r.gen, r.pageNum, n)

\* ----------------------------------------------------------------- init
Init ==
  /\ screen \in Screens
  /\ mounted = FALSE
  /\ properties = << >>
  /\ loading = FALSE
  /\ refreshing = FALSE
  /\ page = 1
  /\ hasMore = TRUE
  /\ total = 0
  /\ filters = DefaultFilters
  /\ searchQuery = ""
  /\ selectedSubLocation = ""
  /\ locations = << >>
  /\ subLocations = << >>
  /\ inflight = EmptyBag
  /\ locInflight = 0
  /\ gen = 0
  /\ genPages = EmptyPages
  /\ lastTotalPages = -1
  /\ sequential = FALSE
  /\ ignored = FALSE
  /\ alert = ""
  /\ rating = NoRating
  /\ stars = << >>
  /\ opened = Null
  /\ openURLPending = EmptyBag
  /\ tappedPhone = << >>
  /\ unhandled = FALSE
  /\ filteredLocations = << >>
  /\ expandedSections = InitialSections
  /\ expandedLocations = NoneExpanded
  /\ crashed = FALSE
  /\ effectPending = FALSE

\* ------------------------------------------------------ locations fetch
\* Array.prototype.sort((a, b) => b.count - a.count): stable, count descending.
RECURSIVE SortByCountDesc(_)
SortByCountDesc(list) ==
  IF Len(list) <= 1 THEN list
  ELSE LET rest == SortByCountDesc(Tail(list))
           x == Head(list)
           before == SelectSeq(rest, LAMBDA y : y.count > x.count)
           after == SelectSeq(rest, LAMBDA y : ~(y.count > x.count))
       IN before \o << x >> \o after

\* locations.find(loc => loc.location.toLowerCase() === locationName.toLowerCase())
FindCurrentLocation(locs) ==
  SelectSeq(locs, LAMBDA loc : ToLowerCase(loc.location) = ToLowerCase(locationName))

\* The sub-location tree built from the answer: one node per entry, sorted.
BuildSubLocations(locs) ==
  LET found == FindCurrentLocation(locs)
      subs == Head(found).sub_locations
  IN SortByCountDesc([i \in 1..Len(subs) |->
                        [name |-> subs[i].name, count |-> subs[i].count,
                         expanded |-> FALSE]])

SubLocationNames == {subLocations[i].name : i \in 1..Len(subLocations)}

\* ------------------------------------------------------------- mounting
\* Both mount effects of the listings screen run: fetchLocations, then
\* fetchProperties(1, filters) from the [] effect and setPage(1),
\* fetchProperties(1, filters) from the [filters] effect.
ListingMount ==
  /\ screen = "listings" /\ ~mounted
  /\ mounted' = TRUE
  /\ gen' = gen + 1
  /\ locInflight' = locInflight + 1
  /\ loading' = TRUE
  /\ page' = 1
  /\ inflight' = inflight (+) (Request(1, filters, FALSE, gen + 1) :> 2)
  /\ genPages' = EmptyPages
  /\ sequential' = FALSE
  /\ ignored' = FALSE
  /\ alert' = ""
  /\ UNCHANGED << cardVars, treeVars, homeVars, filteredLocations, screen, properties, refreshing, hasMore, total, filters,
                  searchQuery, selectedSubLocation, locations, subLocations,
                  lastTotalPages >>

\* The [searchQuery] effect of the property-home screen at mount.
HomeMount ==
  /\ screen = "propertyHome" /\ ~mounted
  /\ mounted' = TRUE
  /\ gen' = gen + 1
  /\ loading' = TRUE
  /\ inflight' = inflight (+) SetToBag({Request(1, searchQuery, FALSE, gen + 1)})
  /\ genPages' = EmptyPages
  /\ sequential' = TRUE
  /\ ignored' = FALSE
  /\ alert' = ""
  /\ UNCHANGED << cardVars, treeVars, homeVars, filteredLocations, screen, properties, refreshing, page, hasMore, total, filters,
                  searchQuery, selectedSubLocation, locations, subLocations,
                  locInflight, lastTotalPages >>

\* The [locationName, selectedSubLocation] effect of the location-detail
\* screen at mount: fetchLocationData, then fetchProperties(1, selectedSubLocation).
DetailMount ==
  /\ screen = "locationDetail" /\ ~mounted
  /\ locationName # ""
  /\ mounted' = TRUE
  /\ gen' = gen + 1
  /\ loading' = TRUE
  /\ locInflight' = locInflight + 1
  /\ inflight' = inflight (+) SetToBag({Request(1, selectedSubLocation, FALSE, gen + 1)})
  /\ genPages' = EmptyPages
  /\ sequential' = TRUE
  /\ ignored' = FALSE
  /\ alert' = ""
  /\ UNCHANGED << cardVars, treeVars, homeVars, filteredLocations, screen, properties, refreshing, page, hasMore, total, filters,
                  searchQuery, selectedSubLocation, locations, subLocations,
                  lastTotalPages >>

\* ---------------------------------------------------------- filter changes
\* A new generation may start: the bounds leave room for it.
RoomForGeneration == gen < MaxGen /\ BagCardinality(inflight) < MaxInflight

\* handleFilterChange(key, value), then the [filters] effect: setPage(1),
\* fetchProperties(1, filters) up to its await.
ListingHandleFilterChange(key, value) ==
  /\ screen = "listings" /\ mounted
  /\ RoomForGeneration
  /\ filters' = [filters EXCEPT ![key] = value]
  /\ page' = 1
  /\ loading' = TRUE
  /\ inflight' = inflight (+) SetToBag({Request(1, filters', FALSE, gen + 1)})
  /\ gen' = gen + 1
  /\ genPages' = EmptyPages
  /\ sequential' = (inflight = EmptyBag)
  /\ ignored' = FALSE
  /\ alert' = ""
  /\ UNCHANGED << cardVars, treeVars, homeVars, filteredLocations, screen, mounted, properties, refreshing, hasMore, total,
                  searchQuery, selectedSubLocation, locations, subLocations,
                  locInflight, lastTotalPages >>

\* A tap on a control of the filter panel may happen: the bounds leave room
\* for its request.
RoomForTap == gen < MaxGen + MaxTaps /\ BagCardinality(inflight) < MaxInflight

\* Mutant of clearedFilters: the category in force is kept.
clearedFiltersKeepingCategory ==
  [search |-> "", location |-> "", sub_location |-> "", category |-> filters.category,
   min_rating |-> Null, sort_by |-> "reviews_desc"]

\* The clearedFilters object of clearFilters.
clearedFilters ==
  [search |-> "", location |-> "", sub_location |-> "", category |-> "",
   min_rating |-> Null, sort_by |-> "reviews_desc"]

\* clearFilters(), then the [filters] effect, which runs because the state
\* receives a new object: setPage(1), fetchProperties(1, filters) up to its
\* await.
clearFilters ==
  /\ screen = "listings" /\ mounted
  /\ RoomForTap
  /\ filters' = clearedFilters
  /\ page' = 1
  /\ loading' = TRUE
  /\ inflight' = inflight (+) SetToBag({Request(1, filters', FALSE, gen + 1)})
  /\ gen' = gen + 1
  /\ genPages' = EmptyPages
  /\ sequential' = (inflight = EmptyBag)
  /\ ignored' = FALSE
  /\ alert' = ""
  /\ UNCHANGED << cardVars, treeVars, homeVars, filteredLocations, screen, mounted, properties, refreshing, hasMore, total,
                  searchQuery, selectedSubLocation, locations, subLocations,
                  locInflight, lastTotalPages >>

\* prev[key] read as a condition: an absent key is undefined, hence falsy.
Expanded(prev, key) == key \in DOMAIN prev /\ prev[key]

\* `location_${loc.location}`.
NodeKey(name) ==
  CASE name = "Dooars" -> "location_Dooars"
    [] name = "Darjeeling Hills" -> "location_Darjeeling Hills"

\* The leaves the listings filter tree displays: (location, sub-location)
\* pairs of the locations summary held in state, for the location nodes
\* that are expanded while the location section is expanded.
Leaves ==
  IF Expanded(expandedSections, "location")
  THEN UNION { { << locations[i].location, locations[i].sub_locations[j].name >> :
                   j \in 1..Len(locations[i].sub_locations) } :
               i \in { k \in 1..Len(locations) :
                         Expanded(expandedSections, NodeKey(locations[k].location)) } }
  ELSE {}

\* Mutant of ListingTapSubLocation: a tap while any leaf is selected deselects.
ListingTapSubLocationDeselectsFirst(loc, name) ==
  /\ screen = "listings" /\ mounted
  /\ << loc, name >> \in Leaves
  /\ RoomForTap
  /\ filters' = [filters EXCEPT !.location = loc,
                                !.sub_location =
                                  IF filters.sub_location # "" THEN "" ELSE name]
  /\ page' = 1
  /\ loading' = TRUE
  /\ inflight' = inflight (+) SetToBag({Request(1, filters', FALSE, gen + 1)})
  /\ gen' = gen + 1
  /\ genPages' = EmptyPages
  /\ sequential' = (inflight = EmptyBag)
  /\ ignored' = FALSE
  /\ alert' = ""
  /\ UNCHANGED << cardVars, treeVars, homeVars, filteredLocations, screen, mounted, properties,
                  refreshing, hasMore, total, searchQuery, selectedSubLocation,
                  locations, subLocations, locInflight, lastTotalPages >>

\* Mutant of ListingTapSubLocation: a tap on the selected leaf clears the
\* location as well.
ListingTapSubLocationClearsBoth(loc, name) ==
  /\ screen = "listings" /\ mounted
  /\ << loc, name >> \in Leaves
  /\ RoomForTap
  /\ filters' = IF filters.location = loc /\ filters.sub_location = name
                THEN [filters EXCEPT !.location = "", !.sub_location = ""]
                ELSE [filters EXCEPT !.location = loc, !.sub_location = name]
  /\ page' = 1
  /\ loading' = TRUE
  /\ inflight' = inflight (+) SetToBag({Request(1, filters', FALSE, gen + 1)})
  /\ gen' = gen + 1
  /\ genPages' = EmptyPages
  /\ sequential' = (inflight = EmptyBag)
  /\ ignored' = FALSE
  /\ alert' = ""
  /\ UNCHANGED << cardVars, treeVars, homeVars, filteredLocations, screen, mounted, properties,
                  refreshing, hasMore, total, searchQuery, selectedSubLocation,
                  locations, subLocations, locInflight, lastTotalPages >>

\* onPress of a sub-location leaf of the listings filter tree:
\* handleFilterChange('location', loc), handleFilterChange('sub_location',
\* '' if this leaf is the selected one, else name), both applied to the
\* previous state in one render; then the [filters] effect.
ListingTapSubLocation(loc, name) ==
  /\ screen = "listings" /\ mounted
  /\ << loc, name >> \in Leaves
  /\ RoomForTap
  /\ filters' = [filters EXCEPT !.location = loc,
                                !.sub_location =
                                  IF filters.location = loc /\ filters.sub_location = name
                                  THEN "" ELSE name]
  /\ page' = 1
  /\ loading' = TRUE
  /\ inflight' = inflight (+) SetToBag({Request(1, filters', FALSE, gen + 1)})
  /\ gen' = gen + 1
  /\ genPages' = EmptyPages
  /\ sequential' = (inflight = EmptyBag)
  /\ ignored' = FALSE
  /\ alert' = ""
  /\ UNCHANGED << cardVars, treeVars, homeVars, filteredLocations, screen, mounted, properties,
                  refreshing, hasMore, total, searchQuery, selectedSubLocation,
                  locations, subLocations, locInflight, lastTotalPages >>

\* The categories of the Property Classification section.
Categories == {"Resort", "Homestay"}

\* onPress of a category of the Property Classification section, displayed
\* while the section is expanded: handleFilterChange('category', '' if this
\* category is the selected one, else category); then the [filters] effect.
ListingTapCategory(category) ==
  /\ screen = "listings" /\ mounted
  /\ Expanded(expandedSections, "classification")
  /\ RoomForTap
  /\ filters' = [filters EXCEPT !.category =
                                  IF filters.category = category THEN "" ELSE category]
  /\ page' = 1
  /\ loading' = TRUE
  /\ inflight' = inflight (+) SetToBag({Request(1, filters', FALSE, gen + 1)})
  /\ gen' = gen + 1
  /\ genPages' = EmptyPages
  /\ sequential' = (inflight = EmptyBag)
  /\ ignored' = FALSE
  /\ alert' = ""
  /\ UNCHANGED << cardVars, treeVars, homeVars, filteredLocations, screen, mounted, properties,
                  refreshing, hasMore, total, searchQuery, selectedSubLocation,
                  locations, subLocations, locInflight, lastTotalPages >>

\* handleSearch(text): setSearchQuery(text), setPage(1); then the
\* [searchQuery] effect: fetchProperties(1, searchQuery) up to its await.
\* The effect runs only when the text differs from the one held: for an
\* unchanged text only the cursor is reset and nothing is requested.
HomeHandleSearch(text) ==
  /\ screen = "propertyHome" /\ mounted
  /\ page' = 1
  /\ ignored' = FALSE
  /\ alert' = ""
  /\ IF text = searchQuery
     THEN UNCHANGED << searchQuery, loading, inflight, gen, genPages, sequential >>
     ELSE /\ RoomForGeneration
          /\ searchQuery' = text
          /\ loading' = TRUE
          /\ inflight' = inflight (+) SetToBag({Request(1, text, FALSE, gen + 1)})
          /\ gen' = gen + 1
          /\ genPages' = EmptyPages
          /\ sequential' = (inflight = EmptyBag)
  /\ UNCHANGED << cardVars, treeVars, homeVars, filteredLocations, screen, mounted, properties, refreshing, hasMore, total,
                  filters, selectedSubLocation, locations, subLocations,
                  locInflight, lastTotalPages >>

\* selectSubLocation(name): toggles the selection, setPage(1); then the
\* effect: fetchLocationData and fetchProperties(1, selectedSubLocation).
DetailSelectSubLocation(subLocationName) ==
  /\ screen = "locationDetail" /\ mounted
  /\ RoomForGeneration
  /\ selectedSubLocation' =
       IF subLocationName = selectedSubLocation THEN "" ELSE subLocationName
  /\ page' = 1
  /\ loading' = TRUE
  /\ locInflight' = locInflight + 1
  /\ inflight' = inflight (+) SetToBag({Request(1, selectedSubLocation', FALSE, gen + 1)})
  /\ gen' = gen + 1
  /\ genPages' = EmptyPages
  /\ sequential' = (inflight = EmptyBag)
  /\ ignored' = FALSE
  /\ alert' = ""
  /\ UNCHANGED << cardVars, treeVars, homeVars, filteredLocations, screen, mounted, properties, refreshing, hasMore, total,
                  filters, searchQuery, locations, subLocations, lastTotalPages >>

\* ------------------------------------------------------ loadMore, refresh
\* Mutant of HandleLoadMore: the guard tests !loading only.
HandleLoadMoreIgnoresHasMore ==
  /\ screen \in PagedScreens /\ mounted
  /\ IF ~loading
     THEN /\ page < MaxPage /\ BagCardinality(inflight) < MaxInflight
          /\ page' = page + 1
          /\ inflight' = inflight (+) SetToBag({Request(page + 1, CurrentQuery, FALSE, gen)})
          /\ sequential' = (sequential /\ inflight = EmptyBag)
          /\ ignored' = FALSE
     ELSE /\ UNCHANGED << page, inflight, sequential >>
          /\ ignored' = TRUE
  /\ alert' = ""
  /\ UNCHANGED << cardVars, treeVars, homeVars, filteredLocations, screen, mounted, properties, loading, refreshing, hasMore, total,
                  filters, searchQuery, selectedSubLocation, locations,
                  subLocations, locInflight, gen, genPages, lastTotalPages >>

\* Mutant of HandleLoadMore: the guard tests hasMore only.
HandleLoadMoreWhileLoading ==
  /\ screen \in PagedScreens /\ mounted
  /\ IF hasMore
     THEN /\ page < MaxPage /\ BagCardinality(inflight) < MaxInflight
          /\ page' = page + 1
          /\ inflight' = inflight (+) SetToBag({Request(page + 1, CurrentQuery, FALSE, gen)})
          /\ sequential' = (sequential /\ inflight = EmptyBag)
          /\ ignored' = FALSE
     ELSE /\ UNCHANGED << page, inflight, sequential >>
          /\ ignored' = TRUE
  /\ alert' = ""
  /\ UNCHANGED << cardVars, treeVars, homeVars, filteredLocations, screen, mounted, properties, loading, refreshing, hasMore, total,
                  filters, searchQuery, selectedSubLocation, locations,
                  subLocations, locInflight, gen, genPages, lastTotalPages >>

\* handleLoadMore: guarded by !loading && hasMore; otherwise nothing happens.
HandleLoadMore ==
  /\ screen \in PagedScreens /\ mounted
  /\ IF ~loading /\ hasMore
     THEN /\ page < MaxPage /\ BagCardinality(inflight) < MaxInflight
          /\ page' = page + 1
          /\ inflight' = inflight (+) SetToBag({Request(page + 1, CurrentQuery, FALSE, gen)})
          /\ sequential' = (sequential /\ inflight = EmptyBag)
          /\ ignored' = FALSE
     ELSE /\ UNCHANGED << page, inflight, sequential >>
          /\ ignored' = TRUE
  /\ alert' = ""
  /\ UNCHANGED << cardVars, treeVars, homeVars, filteredLocations, screen, mounted, properties, loading, refreshing, hasMore, total,
                  filters, searchQuery, selectedSubLocation, locations,
                  subLocations, locInflight, gen, genPages, lastTotalPages >>

\* A refresh may start: the bounds leave room for its request.
RoomForRefresh == gen < MaxGen + MaxRefreshes /\ BagCardinality(inflight) < MaxInflight

\* handleRefresh: setPage(1), fetchProperties(1, <current filter>, true).
HandleRefresh ==
  /\ screen \in PagedScreens /\ mounted
  /\ RoomForRefresh
  /\ page' = 1
  /\ refreshing' = TRUE
  /\ inflight' = inflight (+) SetToBag({Request(1, CurrentQuery, TRUE, gen + 1)})
  /\ gen' = gen + 1
  /\ genPages' = EmptyPages
  /\ sequential' = (inflight = EmptyBag)
  /\ ignored' = FALSE
  /\ alert' = ""
  /\ UNCHANGED << cardVars, treeVars, homeVars, filteredLocations, screen, mounted, properties, loading, hasMore, total, filters,
                  searchQuery, selectedSubLocation, locations, subLocations,
                  locInflight, lastTotalPages >>

\* ------------------------------------------------------------ responses
\* Mutant of ReceiveOk: a later page is put in front of the list.
ReceiveOkPrepends(r, data) ==
  /\ r \in Pending
  /\ inflight' = inflight (-) SetToBag({r})
  /\ properties' = IF r.pageNum = 1 THEN Items(r, data.n)
                   ELSE Items(r, data.n) \o properties
  /\ total' = data.total
  /\ hasMore' = (r.pageNum < data.total_pages)
  /\ loading' = FALSE
  /\ refreshing' = FALSE
  /\ genPages' = IF r.gen = gen THEN (r.pageNum :> data.n) @@ genPages ELSE genPages
  /\ lastTotalPages' = data.total_pages
  /\ ignored' = FALSE
  /\ alert' = ""
  /\ UNCHANGED << cardVars, treeVars, homeVars, filteredLocations, screen, mounted, page, filters, searchQuery, selectedSubLocation,
                  locations, subLocations, locInflight, gen, sequential >>

\* fetchProperties after its await, response.ok: the list is replaced
\* (pageNum 1) or appended to, total and hasMore are set, finally clears
\* both busy flags.
ReceiveOk(r, data) ==
  /\ r \in Pending
  /\ inflight' = inflight (-) SetToBag({r})
  /\ properties' = IF r.pageNum = 1 THEN Items(r, data.n)
                   ELSE properties \o Items(r, data.n)
  /\ total' = data.total
  /\ hasMore' = (r.pageNum < data.total_pages)
  /\ loading' = FALSE
  /\ refreshing' = FALSE
  /\ genPages' = IF r.gen = gen THEN (r.pageNum :> data.n) @@ genPages ELSE genPages
  /\ lastTotalPages' = data.total_pages
  /\ ignored' = FALSE
  /\ alert' = ""
  /\ UNCHANGED << cardVars, treeVars, homeVars, filteredLocations, screen, mounted, page, filters, searchQuery, selectedSubLocation,
                  locations, subLocations, locInflight, gen, sequential >>

\* Mutant of ReceiveFail: no finally block, the busy flags stay as they were.
ReceiveFailKeepsBusy(r) ==
  /\ r \in Pending
  /\ inflight' = inflight (-) SetToBag({r})
  /\ sequential' = FALSE
  /\ ignored' = FALSE
  /\ alert' = LoadFailedMessage
  /\ UNCHANGED << cardVars, treeVars, homeVars, filteredLocations, screen, mounted, properties, loading,
                  refreshing, page, hasMore, total, filters,
                  searchQuery, selectedSubLocation, locations, subLocations,
                  locInflight, gen, genPages, lastTotalPages >>

\* Mutant of ReceiveFail: the catch also empties the list.
ReceiveFailClearsList(r) ==
  /\ r \in Pending
  /\ inflight' = inflight (-) SetToBag({r})
  /\ properties' = << >>
  /\ loading' = FALSE
  /\ refreshing' = FALSE
  /\ sequential' = FALSE
  /\ ignored' = FALSE
  /\ alert' = LoadFailedMessage
  /\ UNCHANGED << cardVars, treeVars, homeVars, filteredLocations, screen, mounted, page, hasMore, total, filters,
                  searchQuery, selectedSubLocation, locations, subLocations,
                  locInflight, gen, genPages, lastTotalPages >>

\* fetchProperties after its await, not ok or a rejected fetch: the catch
\* raises the alert, finally clears both busy flags.
ReceiveFail(r) ==
  /\ r \in Pending
  /\ inflight' = inflight (-) SetToBag({r})
  /\ loading' = FALSE
  /\ refreshing' = FALSE
  /\ sequential' = FALSE
  /\ ignored' = FALSE
  /\ alert' = LoadFailedMessage
  /\ UNCHANGED << cardVars, treeVars, homeVars, filteredLocations, screen, mounted, properties, page, hasMore, total, filters,
                  searchQuery, selectedSubLocation, locations, subLocations,
                  locInflight, gen, genPages, lastTotalPages >>

\* Listings fetchLocations after its await: setLocations(data).
ListingLocationsOk ==
  /\ screen = "listings" /\ locInflight > 0
  /\ locInflight' = locInflight - 1
  /\ locations' = LocationsData
  /\ ignored' = FALSE
  /\ alert' = ""
  /\ UNCHANGED << cardVars, treeVars, homeVars, filteredLocations, screen, mounted, properties, loading, refreshing, page, hasMore,
                  total, filters, searchQuery, selectedSubLocation, subLocations,
                  inflight, gen, genPages, lastTotalPages, sequential >>

\* Listings fetchLocations failing: logged only.
ListingLocationsFail ==
  /\ screen = "listings" /\ locInflight > 0
  /\ locInflight' = locInflight - 1
  /\ ignored' = FALSE
  /\ alert' = ""
  /\ UNCHANGED << cardVars, treeVars, homeVars, filteredLocations, screen, mounted, properties, loading, refreshing, page, hasMore,
                  total, filters, searchQuery, selectedSubLocation, locations,
                  subLocations, inflight, gen, genPages, lastTotalPages, sequential >>

\* Location-detail fetchLocationData after its await: the tree is built when
\* the location is found; finally clears loading.
DetailLocationDataOk ==
  /\ screen = "locationDetail" /\ locInflight > 0
  /\ locInflight' = locInflight - 1
  /\ subLocations' = IF FindCurrentLocation(LocationsData) # << >>
                     THEN BuildSubLocations(LocationsData) ELSE subLocations
  /\ loading' = FALSE
  /\ ignored' = FALSE
  /\ alert' = ""
  /\ UNCHANGED << cardVars, treeVars, homeVars, filteredLocations, screen, mounted, properties, refreshing, page, hasMore, total,
                  filters, searchQuery, selectedSubLocation, locations,
                  inflight, gen, genPages, lastTotalPages, sequential >>

\* Location-detail fetchLocationData failing: logged; finally clears loading.
DetailLocationDataFail ==
  /\ screen = "locationDetail" /\ locInflight > 0
  /\ locInflight' = locInflight - 1
  /\ loading' = FALSE
  /\ ignored' = FALSE
  /\ alert' = ""
  /\ UNCHANGED << cardVars, treeVars, homeVars, filteredLocations, screen, mounted, properties, refreshing, page, hasMore, total,
                  filters, searchQuery, selectedSubLocation, locations,
                  subLocations, inflight, gen, genPages, lastTotalPages, sequential >>

\* ------------------------------------------------------- property card
\* The ratings explored: 0 .. 5 in steps of 1 / RatingScale, as numerators.
Ratings == 0..(StarCount * RatingScale)

\* Math.floor, Math.ceil and `% 1 !== 0` on a rating given as a numerator.
Floor(t) == t \div RatingScale
Ceil(t) == (t + RatingScale - 1) \div RatingScale
HasFraction(t) == t % RatingScale # 0

\* A for loop pushing the same glyph n times (no iteration for n <= 0).
Push(glyph, n) == [i \in 1..n |-> glyph]

\* Mutant of renderStars: emptyStars is 5 - fullStars.
renderStarsEmptyFromFloor(t) ==
  Push("star", Floor(t))
  \o (IF HasFraction(t) THEN << "star-half" >> ELSE << >>)
  \o Push("star-outline", StarCount - Floor(t))

\* Mutant of renderStars: a half star only from a fraction of one half on.
renderStarsHalfFromOneHalf(t) ==
  Push("star", Floor(t))
  \o (IF 2 * (t % RatingScale) >= RatingScale THEN << "star-half" >> ELSE << >>)
  \o Push("star-outline", StarCount - Ceil(t))

\* renderStars(rating): the Ionicons names pushed, in order.
renderStars(t) ==
  Push("star", Floor(t))
  \o (IF HasFraction(t) THEN << "star-half" >> ELSE << >>)
  \o Push("star-outline", StarCount - Ceil(t))

\* A card with its action buttons is displayed: renderProperty runs once per
\* item of properties.
CardShown == screen \in PagedScreens /\ properties # << >>

\* A displayed card renders its star row for google_rating t / RatingScale.
\* The listings card renders the row only under item.google_rating > 0; the
\* property-home and location-detail cards render it for every rating.
RenderStars(t) ==
  /\ CardShown
  /\ screen = "listings" => t > 0
  /\ rating' = t
  /\ stars' = renderStars(t)
  /\ alert' = ""
  /\ UNCHANGED << opened, openURLPending, unhandled, tappedPhone, treeVars, homeVars, filteredLocations, screen, mounted, properties,
                  loading, refreshing, page, hasMore, total, filters, searchQuery,
                  selectedSubLocation, locations, subLocations, inflight,
                  locInflight, gen, genPages, lastTotalPages, sequential, ignored >>

\* Characters of the phone numbers explored: a digit, the plus, a separator.
PhoneChars == {"9", "+", "-"}

\* item.google_phone: the character sequences up to MaxPhoneLen.
Phones == UNION { [1..n -> PhoneChars] : n \in 0..MaxPhoneLen }

\* item.google_maps_link.
MapLinks == {"https://maps.app.goo.gl/1"}

IsDigit(c) == c \in {"0", "1", "2", "3", "4", "5", "6", "7", "8", "9"}

\* phoneNumber.replace(/[^0-9+]/g, '') and phoneNumber.replace(/[^0-9]/g, '').
CleanForCall(phoneNumber) == SelectSeq(phoneNumber, LAMBDA c : IsDigit(c) \/ c = "+")
\* Mutant of CleanForWhatsApp: the plus sign is kept, as for a call.
CleanForWhatsAppKeepsPlus(phoneNumber) == CleanForCall(phoneNumber)
CleanForWhatsApp(phoneNumber) == SelectSeq(phoneNumber, IsDigit)

\* Alert.alert('Error', ...) of the catch handlers of the link promises.
WhatsAppMissingMessage == "WhatsApp is not installed on your device"
MapFailedMessage == "Unable to open map link"

\* What a link step leaves alone: everything but alert and the link variables.
LinkFrame ==
  UNCHANGED << rating, stars, treeVars, homeVars, filteredLocations, screen, mounted, properties,
               loading, refreshing, page, hasMore, total, filters, searchQuery,
               selectedSubLocation, locations, subLocations, inflight,
               locInflight, gen, genPages, lastTotalPages, sequential, ignored >>

\* The handlers whose openURL promise is awaited by nobody yet.
LinkKinds == {"call", "whatsapp", "map"}

RoomForLink == BagCardinality(openURLPending) < MaxLinks

\* A link handler up to its return: the URL is handed to Linking.openURL and
\* the promise it returns settles in a later task.
OpenURL(kind, url) ==
  /\ CardShown
  /\ RoomForLink
  /\ opened' = url
  /\ openURLPending' = openURLPending (+) SetToBag({kind})
  /\ unhandled' = FALSE
  /\ alert' = ""
  /\ LinkFrame

\* handleCall(phoneNumber): no handler is attached to the promise.
HandleCall(phoneNumber) ==
  /\ OpenURL("call", << "tel:" >> \o CleanForCall(phoneNumber))
  /\ tappedPhone' = phoneNumber

\* handleWhatsApp(phoneNumber): a catch handler is attached to the promise.
HandleWhatsApp(phoneNumber) ==
  /\ OpenURL("whatsapp", << "whatsapp://send?phone=" >> \o CleanForWhatsApp(phoneNumber))
  /\ tappedPhone' = phoneNumber

\* handleOpenMap(mapLink): a catch handler is attached to the promise.
HandleOpenMap(mapLink) ==
  /\ OpenURL("map", << mapLink >>)
  /\ tappedPhone' = << >>

\* The alert the catch handler of a handler's promise raises, "" when the
\* handler attached none.
CatchMessage(kind) ==
  CASE kind = "whatsapp" -> WhatsAppMissingMessage
    [] kind = "map" -> MapFailedMessage
    [] OTHER -> ""

\* The promise of an earlier Linking.openURL settles (canOpen: it resolves;
\* otherwise it rejects): a rejection runs the catch handler, or is left
\* unhandled when the handler attached none.
OpenURLSettles(kind, canOpen) ==
  /\ BagIn(kind, openURLPending)
  /\ openURLPending' = openURLPending (-) SetToBag({kind})
  /\ alert' = IF canOpen THEN "" ELSE CatchMessage(kind)
  /\ unhandled' = (~canOpen /\ CatchMessage(kind) = "")
  /\ UNCHANGED << opened, tappedPhone >>
  /\ LinkFrame

\* -------------------------------------------------------- location-home
\* The [searchQuery, locations] effect: the locations whose lower-cased name
\* includes the lower-cased search text; all of them for a blank text.
FilterLocations(locs, query) ==
  IF Trim(query) = "" THEN locs
  ELSE SelectSeq(locs, LAMBDA location :
                   Includes(ToLowerCase(location.location), ToLowerCase(query)))

\* The identifiers the body of HomeScreen (location-home) declares or imports.
HomeScreenDeclared ==
  {"fetchLocations", "handleRefresh", "toggleLocationExpansion",
   "handleLocationPress", "getSubLocationCount", "renderLocationTree",
   "renderEmpty"}

\* The render of the location-home screen throws a ReferenceError: the
\* FlatList is given renderItem={renderLocationCard}, which is declared nowhere.
RenderThrows == "renderLocationCard" \notin HomeScreenDeclared

\* filteredLocations once the effect a commit left pending has been flushed;
\* React flushes it before it renders the next update.
Flushed ==
  IF effectPending THEN FilterLocations(locations, searchQuery) ELSE filteredLocations

\* The first render of the location-home screen and, when it commits, the []
\* effect: fetchLocations() up to its await.  The render throws, so nothing
\* is committed and no effect runs.
LocHomeMount ==
  /\ screen = "locationHome" /\ ~mounted /\ ~crashed
  /\ IF RenderThrows
     THEN /\ crashed' = TRUE
          /\ UNCHANGED << mounted, gen, loading, locInflight >>
     ELSE /\ mounted' = TRUE
          /\ gen' = gen + 1
          /\ loading' = TRUE
          /\ locInflight' = locInflight + 1
          /\ UNCHANGED crashed
  /\ ignored' = FALSE
  /\ alert' = ""
  /\ UNCHANGED << cardVars, treeVars, effectPending, filteredLocations, screen,
                  properties, refreshing, page, hasMore, total, filters,
                  searchQuery, selectedSubLocation, locations, subLocations,
                  inflight, genPages, lastTotalPages, sequential >>

\* Location-home handleRefresh: fetchLocations(true) up to its await.
LocHomeHandleRefresh ==
  /\ screen = "locationHome" /\ mounted
  /\ gen < MaxGen /\ locInflight < MaxInflight
  /\ gen' = gen + 1
  /\ refreshing' = TRUE
  /\ locInflight' = locInflight + 1
  /\ filteredLocations' = Flushed
  /\ effectPending' = FALSE
  /\ ignored' = FALSE
  /\ alert' = ""
  /\ UNCHANGED << cardVars, treeVars, crashed, screen, mounted, properties, loading,
                  page, hasMore, total, filters, searchQuery, selectedSubLocation,
                  locations, subLocations, inflight, genPages, lastTotalPages,
                  sequential >>

\* Location-home fetchLocations after its await, response.ok: setLocations(data),
\* setFilteredLocations(data), finally clears both busy flags; the commit
\* shows these and leaves the [searchQuery, locations] effect to run.  An
\* effect still pending from the commit before is flushed first and its
\* setFilteredLocations, queued last, is the one the commit shows.
LocHomeLocationsOk(data) ==
  /\ screen = "locationHome" /\ locInflight > 0
  /\ locInflight' = locInflight - 1
  /\ locations' = data
  /\ filteredLocations' = IF effectPending THEN Flushed ELSE data
  /\ effectPending' = TRUE
  /\ loading' = FALSE
  /\ refreshing' = FALSE
  /\ ignored' = FALSE
  /\ alert' = ""
  /\ UNCHANGED << cardVars, treeVars, crashed, screen, mounted, properties, page,
                  hasMore, total, filters, searchQuery, selectedSubLocation,
                  subLocations, inflight, gen, genPages, lastTotalPages,
                  sequential >>

\* The [searchQuery, locations] effect of the location-home screen, run after
\* the commit of an answer.
LocHomeFilterEffect ==
  /\ screen = "locationHome" /\ effectPending
  /\ filteredLocations' = FilterLocations(locations, searchQuery)
  /\ effectPending' = FALSE
  /\ ignored' = FALSE
  /\ alert' = ""
  /\ UNCHANGED << cardVars, treeVars, crashed, screen, mounted, properties, loading,
                  refreshing, page, hasMore, total, filters, searchQuery,
                  selectedSubLocation, locations, subLocations, inflight,
                  locInflight, gen, genPages, lastTotalPages, sequential >>

\* Location-home fetchLocations failing: the catch raises the alert, finally
\* clears both busy flags.
LocHomeLocationsFail ==
  /\ screen = "locationHome" /\ locInflight > 0
  /\ locInflight' = locInflight - 1
  /\ loading' = FALSE
  /\ refreshing' = FALSE
  /\ filteredLocations' = Flushed
  /\ effectPending' = FALSE
  /\ ignored' = FALSE
  /\ alert' = LocationsFailedMessage
  /\ UNCHANGED << cardVars, treeVars, crashed, screen, mounted, properties, page,
                  hasMore, total, filters, searchQuery, selectedSubLocation,
                  locations, subLocations, inflight, gen, genPages,
                  lastTotalPages, sequential >>

\* onChangeText of the location-home search box (setSearchQuery), then the
\* [searchQuery, locations] effect, which runs with the commit of an event.
LocHomeSetSearchQuery(text) ==
  /\ screen = "locationHome" /\ mounted
  /\ searchQuery' = text
  /\ filteredLocations' = FilterLocations(locations, text)
  /\ effectPending' = FALSE
  /\ ignored' = FALSE
  /\ alert' = ""
  /\ UNCHANGED << cardVars, treeVars, crashed, screen, mounted, properties, loading,
                  refreshing, page, hasMore, total, filters, selectedSubLocation,
                  locations, subLocations, inflight, locInflight, gen, genPages,
                  lastTotalPages, sequential >>

\* A successful answer to a locations request of the location-home screen.
LocHomeOk == \E data \in LocationsAnswers : LocHomeLocationsOk(data)

\* A search edit on the location-home screen.
LocHomeSearchEdit ==
  \E text \in LocHomeSearchTexts \ {searchQuery} : LocHomeSetSearchQuery(text)

\* ------------------------------------------------------ expansion state
\* Mutant of Toggle: expanding or collapsing one entry collapses the others.
ToggleCollapsingOthers(prev, key) ==
  [k \in DOMAIN prev \cup {key} |-> IF k = key THEN ~Expanded(prev, key) ELSE FALSE]

\* prev => ({...prev, [key]: !prev[key]}).
Toggle(prev, key) == (key :> ~Expanded(prev, key)) @@ prev

\* The sections of the listings filter panel.
Sections == {"location", "price", "classification"}

LocationNames == {LocationsData[i].location : i \in 1..Len(LocationsData)}

\* What a toggle leaves alone: everything but the two expansion objects.
ToggleFrame ==
  /\ alert' = ""
  /\ ignored' = FALSE
  /\ UNCHANGED << cardVars, crashed, screen, mounted, properties,
                  loading, refreshing, page, hasMore, total, filters, searchQuery,
                  selectedSubLocation, locations, subLocations, inflight,
                  locInflight, gen, genPages, lastTotalPages, sequential >>

\* toggleSection(section), the header of a section of the listings panel.
toggleSection(section) ==
  /\ screen = "listings" /\ mounted
  /\ expandedSections' = Toggle(expandedSections, section)
  /\ UNCHANGED << expandedLocations, filteredLocations, effectPending >>
  /\ ToggleFrame

\* onPress of a main location node of the listings panel, rendered for each
\* loaded location while the location section is expanded.
ToggleLocationNode(name) ==
  /\ screen = "listings" /\ mounted
  /\ Expanded(expandedSections, "location")
  /\ \E i \in 1..Len(locations) : locations[i].location = name
  /\ expandedSections' = Toggle(expandedSections, NodeKey(name))
  /\ UNCHANGED << expandedLocations, filteredLocations, effectPending >>
  /\ ToggleFrame

\* toggleLocationExpansion(name), the main node of a listed location of the
\* location-home screen, pressed in renderLocationTree.
toggleLocationExpansion(name) ==
  /\ screen = "locationHome" /\ mounted
  /\ \E i \in 1..Len(filteredLocations) : filteredLocations[i].location = name
  /\ expandedLocations' = Toggle(expandedLocations, name)
  /\ filteredLocations' = Flushed
  /\ effectPending' = FALSE
  /\ UNCHANGED expandedSections
  /\ ToggleFrame

\* ------------------------------------------------------------ behaviours
\* The controls of the listings filter panel and of the trees.
SectionTap == \E section \in Sections : toggleSection(section)
NodeTap == \E name \in LocationNames : ToggleLocationNode(name)
LocationTap == \E name \in LocationNames : toggleLocationExpansion(name)
SearchEdit ==
  \E text \in SearchTexts \ {filters.search} : ListingHandleFilterChange("search", text)
CategoryTap == \E category \in Categories : ListingTapCategory(category)
TapLeaf == \E leaf \in Leaves : ListingTapSubLocation(leaf[1], leaf[2])

\* A filter value changes. Listings: every path to setFilters, which are the
\* search box, a category, a tree leaf (location and sub_location in one
\* press) and the Clear button. Property-home: the search box. Location-
\* detail: a sub-location chip. A text box reports a text other than the one
\* it displays (the clear button of the property-home box is displayed only
\* while the text is not empty). Each change starts a generation while the
\* generation bound leaves room.
FilterChange ==
  \/ SearchEdit
  \/ RoomForGeneration /\ CategoryTap
  \/ RoomForGeneration /\ TapLeaf
  \/ RoomForGeneration /\ clearFilters
  \/ \E text \in SearchTexts \ {searchQuery} : HomeHandleSearch(text)
  \/ \E name \in SubLocationNames : DetailSelectSubLocation(name)

Receive ==
  \/ \E r \in Pending : \E data \in Responses(r) : ReceiveOk(r, data)
  \/ \E r \in Pending : ReceiveFail(r)

Next ==
  \/ ListingMount
  \/ HomeMount
  \/ DetailMount
  \/ FilterChange
  \/ HandleLoadMore
  \/ HandleRefresh
  \/ Receive
  \/ ListingLocationsOk
  \/ ListingLocationsFail
  \/ DetailLocationDataOk
  \/ DetailLocationDataFail
  \/ toggleSection("classification")
  \/ NodeTap
  \/ LocHomeMount

Spec == Init /\ [][Next]_vars

\* The star rows of the cards: a screen mounts, pages arrive, and each card
\* displayed renders renderStars of its item's rating, any rating explored.
StarsInit == Init /\ screen \in PagedScreens

StarRow == \E t \in Ratings : RenderStars(t)

StarsNext ==
  \/ ListingMount
  \/ HomeMount
  \/ DetailMount
  \/ Receive
  \/ StarRow

StarsSpec == StarsInit /\ [][StarsNext]_vars

\* The action buttons of the cards: a screen mounts, pages arrive, the call,
\* WhatsApp and map buttons are tapped, and each openURL promise settles
\* later, with a target app present or not.
LinkInit == Init /\ screen \in PagedScreens

CallTap == \E phone \in Phones : HandleCall(phone)
WhatsAppTap == \E phone \in Phones : HandleWhatsApp(phone)
MapTap == \E link \in MapLinks : HandleOpenMap(link)
LinkSettles == \E kind \in LinkKinds : \E canOpen \in BOOLEAN : OpenURLSettles(kind, canOpen)

LinkNext ==
  \/ ListingMount
  \/ HomeMount
  \/ DetailMount
  \/ Receive
  \/ CallTap
  \/ WhatsAppTap
  \/ MapTap
  \/ LinkSettles

LinkSpec == LinkInit /\ [][LinkNext]_vars

\* ------------------------------------------------- expansion behaviours
ExpandInit == Init /\ screen = "listings"


ExpandNext ==
  \/ ListingMount
  \/ ListingLocationsOk
  \/ ListingLocationsFail
  \/ Receive
  \/ SectionTap
  \/ NodeTap

ExpandSpec == ExpandInit /\ [][ExpandNext]_vars

\* The listings screen with its filter tree: mount, the locations summary,
\* a search text, the location section and its nodes opened and closed, taps
\* on the leaves displayed, and the responses.
TreeInit == Init /\ screen = "listings"

TreeNext ==
  \/ ListingMount
  \/ ListingLocationsOk
  \/ ListingLocationsFail
  \/ \E text \in SearchTexts \ {filters.search} : ListingHandleFilterChange("search", text)
  \/ toggleSection("location")
  \/ NodeTap
  \/ TapLeaf
  \/ Receive

TreeSpec == TreeInit /\ [][TreeNext]_vars

\* The location-home screen with all its handlers.  Its first render throws,
\* so of these only LocHomeMount ever takes a step.
LocHomeInit == Init /\ screen = "locationHome"

LocHomeNext ==
  \/ LocHomeMount
  \/ LocHomeHandleRefresh
  \/ LocHomeOk
  \/ LocHomeLocationsFail
  \/ LocHomeFilterEffect
  \/ LocHomeSearchEdit
  \/ LocationTap

LocHomeSpec == LocHomeInit /\ [][LocHomeNext]_vars

\* The listings screen with every control that sets a filter: the search
\* box, the categories and the tree leaves, from the default filters of the
\* useState initialiser. No control sets min_rating or sort_by.
ParamsInit == Init /\ screen = "listings"


ParamsNext ==
  \/ ListingMount
  \/ ListingLocationsOk
  \/ HandleLoadMore
  \/ Receive
  \/ SearchEdit
  \/ toggleSection("classification")
  \/ CategoryTap
  \/ NodeTap
  \/ TapLeaf

ParamsSpec == ParamsInit /\ [][ParamsNext]_vars

\* The listings screen with its Clear button: the search box and the
\* categories set filters, pages are loaded, and the filters are cleared.
ClearNext ==
  \/ ListingMount
  \/ HandleLoadMore
  \/ Receive
  \/ SearchEdit
  \/ toggleSection("classification")
  \/ CategoryTap
  \/ clearFilters

ClearSpec == ParamsInit /\ [][ClearNext]_vars

\* A locations request resolves, on whichever screen issued it.
LocationsResponse ==
  \/ ListingLocationsOk \/ ListingLocationsFail
  \/ DetailLocationDataOk \/ DetailLocationDataFail

\* Every request issued eventually resolves, with success or failure.
LiveSpec == Spec /\ WF_vars(Receive) /\ WF_vars(LocationsResponse)

\* ------------------------------------------------------------- claims
\* The pages recorded in genPages from page p on, concatenated in page order.
RECURSIVE PagesFrom(_)
PagesFrom(p) ==
  IF \A q \in DOMAIN genPages : q < p THEN << >>
  ELSE (IF p \in DOMAIN genPages THEN PageList(gen, p, genPages[p]) ELSE << >>)
       \o PagesFrom(p + 1)

\* A properties request for page 1 awaits its response.
FirstPagePending == \E r \in Pending : r.pageNum = 1

\* C1: a properties response whose request was issued under an older
\* generation changes neither the list nor total nor hasMore when it resolves.
C1_StaleResponseDiscarded ==
  [][\A r \in Pending : \A data \in Responses(r) :
       (r.gen # gen /\ ReceiveOk(r, data))
         => UNCHANGED << properties, total, hasMore >>]_vars

\* C2: in every reachable state the accumulated list is the concatenation, in
\* page order, of the pages successfully fetched for the current generation.
C2_ListIsGenerationPages == properties = PagesFrom(1)

\* C3: loadMore issues no request and changes no state while a first-page
\* load or a refresh request for properties is still in flight.
C3_LoadMoreIgnoredUnlessReady ==
  [][(FirstPagePending /\ HandleLoadMore) => UNCHANGED programState]_vars

\* C4: after a successful response, hasMore is true iff the page cursor is
\* less than the total_pages of the last successful response; stated for the
\* states in which no properties request is in flight.
C4_HasMoreIffCursorBelowTotalPages ==
  (lastTotalPages # -1 /\ inflight = EmptyBag)
    => (hasMore <=> page < lastTotalPages)

\* C5: once hasMore is false it stays false for as long as the generation
\* lasts (no filter change, no refresh).
C5_HasMoreStaysFalse ==
  [][(~hasMore /\ gen' = gen) => ~hasMore']_vars

\* C6: loadMore invoked while hasMore is false sends no request and leaves
\* cursor, list, total, both busy flags and the filter values unchanged.
C6_LoadMoreWithoutMoreIsNoOp ==
  [][(~hasMore /\ HandleLoadMore) => UNCHANGED programState]_vars

\* C6 witness: loadMore was invoked with hasMore false (and nothing loading)
\* and returned at its guard.
C6_Witness == ignored /\ ~hasMore /\ ~loading /\ properties # << >>

\* C7: when the loads of a generation are strictly sequential and all
\* succeed, after N >= 1 loads the list is page 1 .. page N in order, and its
\* length is the sum of the N pages' item counts.
RECURSIVE SumCounts(_)
SumCounts(n) == IF n = 0 THEN 0 ELSE genPages[n] + SumCounts(n - 1)

C7_SequentialLoadsConcatenate ==
  (sequential /\ genPages # EmptyPages) =>
    LET N == Cardinality(DOMAIN genPages)
    IN /\ DOMAIN genPages = 1..N
       /\ properties = PagesFrom(1)
       /\ Len(properties) = SumCounts(N)

\* C7 witness: two sequential loads, both pages non-empty, are in the list.
C7_Witness ==
  /\ sequential
  /\ DOMAIN genPages = {1, 2}
  /\ properties = PageList(gen, 1, PageItems) \o PageList(gen, 2, PageItems)

\* A page-1 request issued by a filter change: the mount issues its own in
\* generation 1 and a refresh marks its request.
IssuedByFilterChange(r) == r.pageNum = 1 /\ ~r.isRefresh /\ r.gen > 1

\* C8: every filter change (any change of FilterState on the listings
\* screen, of the search text on property-home, of the selected sub-location
\* on location-detail) resets the cursor to 1 and issues one page-1 request
\* carrying the new filter values, and loading is set for as long as that
\* request is in flight.
C8_FilterChangeIssuesFirstPage ==
  /\ [][FilterChange =>
          /\ page' = 1
          /\ loading'
          /\ inflight' = inflight (+) SetToBag({Request(1, CurrentQuery', FALSE, gen')})]_vars
  /\ [](\A r \in Pending : IssuedByFilterChange(r) => loading)

\* C9: at the moment a filter changes the accumulated list is cleared, so
\* that nothing fetched under the previous filter is displayed while the new
\* first-page request is in flight.
C9_ListClearedOnFilterChange ==
  [][FilterChange => properties' = << >>]_vars

\* A refresh request awaits its response.
RefreshPending == \E r \in Pending : r.isRefresh

\* C10: refresh acts as a filter change that keeps the filter values, with
\* refreshing in place of loading: cursor to 1, one page-1 request with the
\* current filters, nothing else touched; when the refresh request succeeds
\* the list is replaced by the page received; and refreshing is set for as
\* long as the refresh request is in flight.
C10_RefreshIsFilterChangeWithRefreshing ==
  /\ [][/\ HandleRefresh =>
            /\ CurrentQuery' = CurrentQuery
            /\ page' = 1
            /\ refreshing'
            /\ inflight' = inflight (+) SetToBag({Request(1, CurrentQuery, TRUE, gen')})
            /\ UNCHANGED << properties, total, hasMore, loading, locInflight >>
       /\ \A r \in Pending : r.isRefresh => \A data \in Responses(r) :
            (lastTotalPages' = data.total_pages /\ ReceiveOk(r, data))
              => properties' = Items(r, data.n)]_vars
  /\ [](RefreshPending => refreshing)

\* C11: a failed first-page properties request empties the accumulated list;
\* stated for the first-page request of the current generation when no other
\* request was in flight with it.
C11_FailedFirstPageClearsList ==
  [][\A r \in Pending :
       (r.pageNum = 1 /\ r.gen = gen /\ sequential /\ ReceiveFail(r))
         => properties' = << >>]_vars

\* C12: a failed next-page properties request (page > 1) does not change the
\* accumulated list (nor total, hasMore or the cursor).
C12_FailedNextPageKeepsList ==
  [][\A r \in Pending :
       (r.pageNum > 1 /\ ReceiveFail(r))
         => UNCHANGED << properties, total, hasMore, page >>]_vars

\* The request for the page under the cursor failed: it was issued under this
\* generation, nothing is in flight, and the page was not received.
CursorPageFailed ==
  mounted /\ inflight = EmptyBag /\ page \notin DOMAIN genPages

\* C12 witness: page 1 is displayed, the request for page 2 failed.
C12_Witness ==
  /\ CursorPageFailed /\ page = 2
  /\ DOMAIN genPages = {1}
  /\ properties = PageList(gen, 1, PageItems)

\* C13: after a failed properties request, the retry action of the screen
\* (handleRefresh: the retry button and pull-to-refresh) re-issues the request
\* that failed: the page under the cursor, with the current filter values.
C13_RetryReissuesFailedRequest ==
  [][(CursorPageFailed /\ HandleRefresh)
       => \E r \in BagToSet(inflight') :
            r.pageNum = page /\ r.params = ParamsOf(page, CurrentQuery)]_vars

\* No request of either kind awaits its response.
Quiet == inflight = EmptyBag /\ locInflight = 0

\* C14: when every request resolves and the user stops triggering new ones,
\* the screen ends with loading and refreshing both false for good; and in no
\* state are a busy flag true and no request in flight.
C14_BusyFlagsEventuallyClear ==
  /\ [](Quiet => (~loading /\ ~refreshing))
  /\ <>[](~loading /\ ~refreshing)

\* C14 witness: the last request in flight failed, and both flags are clear.
C14_Witness ==
  /\ mounted /\ Quiet /\ gen > 1
  /\ alert \in {LoadFailedMessage, LocationsFailedMessage}
  /\ ~loading /\ ~refreshing

\* A properties request for a later page awaits its response.
NextPagePending == \E r \in Pending : r.pageNum > 1

\* C15: a loadMore fired while a next-page request is in flight, and a
\* refresh fired while a refresh request is in flight, issue no request.
C15_ReentrantTriggersIgnored ==
  [][/\ (NextPagePending /\ HandleLoadMore) => UNCHANGED inflight
     /\ (RefreshPending /\ HandleRefresh) => UNCHANGED inflight]_vars

\* The leaf (loc, name) is the selected one.
Selected(loc, name) == filters.location = loc /\ filters.sub_location = name

\* C16: a tap on a leaf (L, S) that is not the selected leaf leaves
\* location = L and sub_location = S, whatever was selected before.
C16_TapSelectsLeaf ==
  [][\A leaf \in Leaves :
       (~Selected(leaf[1], leaf[2]) /\ ListingTapSubLocation(leaf[1], leaf[2]))
         => (filters'.location = leaf[1] /\ filters'.sub_location = leaf[2])]_vars

\* C16 witness: with (Dooars, Lataguri) selected and its request still in
\* flight, Chalsa was tapped: (Dooars, Chalsa) is selected and requested.
C16_Witness ==
  /\ Selected("Dooars", "Chalsa")
  /\ Request(1, filters, FALSE, gen) \in Pending
  /\ Request(1, [filters EXCEPT !.sub_location = "Lataguri"], FALSE, gen - 1) \in Pending

\* C17: a tap on the selected leaf (L, S) sets sub_location to the empty
\* string and leaves location = L and every other filter field unchanged.
C17_TapOnSelectedClearsSubLocation ==
  [][\A leaf \in Leaves :
       (Selected(leaf[1], leaf[2]) /\ ListingTapSubLocation(leaf[1], leaf[2]))
         => filters' = [filters EXCEPT !.sub_location = ""]]_vars

\* C17 witness: with a search text set, the selected leaf was tapped again:
\* the location stays, the sub-location is empty, and that is what is requested.
C17_Witness ==
  /\ filters.location = "Dooars" /\ filters.sub_location = ""
  /\ filters.search = "hill"
  /\ Request(1, filters, FALSE, gen) \in Pending

\* How many glyphs of the star row rendered last have this name.
Count(glyph) == Cardinality({i \in DOMAIN stars : stars[i] = glyph})

\* C18: for every rating in [0, 5], fractional ones included, the star row
\* has exactly 5 glyphs: full + half + empty = 5.
C18_FiveGlyphs ==
  rating # NoRating =>
    /\ Len(stars) = 5
    /\ Count("star") + Count("star-half") + Count("star-outline") = 5

\* C18 witness: a rating with a small fraction (4.2) rendered 5 glyphs.
C18_Witness ==
  /\ rating = 4 * RatingScale + RatingScale \div 5
  /\ HasFraction(rating)
  /\ Len(stars) = 5

\* Position of a glyph kind in the row: full, then half, then empty.
Rank(glyph) ==
  CASE glyph = "star" -> 1
    [] glyph = "star-half" -> 2
    [] OTHER -> 3

\* C19: the row is floor(rating) full glyphs, then one half glyph iff the
\* rating has a non-zero fraction, then empty glyphs up to five, in that order.
C19_FullHalfEmptyInOrder ==
  rating # NoRating =>
    /\ Count("star") = rating \div RatingScale
    /\ Count("star-half") = (IF rating % RatingScale # 0 THEN 1 ELSE 0)
    /\ Count("star-outline") = 5 - Count("star") - Count("star-half")
    /\ \A i, j \in DOMAIN stars : i < j => Rank(stars[i]) <= Rank(stars[j])
    /\ rating = 0 => stars = Push("star-outline", 5)
    /\ rating = 5 * RatingScale => stars = Push("star", 5)

\* C19 witness: 4.2 rendered as 4 full, 1 half, no empty.
C19_Witness ==
  /\ rating = 4 * RatingScale + RatingScale \div 5
  /\ HasFraction(rating)
  /\ stars = << "star", "star", "star", "star", "star-half" >>

\* The promise of a link button's openURL rejects: no app could open the URL.
LinkOpenFails == \E kind \in LinkKinds : OpenURLSettles(kind, FALSE)

\* C20: for the phone dialer, WhatsApp and the map link, when opening the
\* URL fails for want of a handler an alert is shown, and no rejection is
\* left unhandled.
C20_LinkFailureShowsAlert ==
  [][LinkOpenFails => (alert' # "" /\ ~unhandled')]_vars

\* A network request fails: a properties request, or the locations summary
\* of the listings, location-detail or location-home screen.
FetchFails ==
  \/ \E r \in Pending : ReceiveFail(r)
  \/ ListingLocationsFail
  \/ DetailLocationDataFail
  \/ LocHomeLocationsFail

\* C21: every failed network request, for properties or for the locations
\* summary, on every screen, raises an alert.
C21_FailedRequestAlerts ==
  [][FetchFails => alert' # ""]_vars

\* The optional string fields of FilterState.
StringFilters == {"search", "location", "sub_location", "category"}

\* Request r carries page, per_page and sort_by, each string filter exactly
\* when the field is non-empty, and min_rating exactly when minRatingSent,
\* with the values of the FilterState.
CarriesFilters(r, minRatingSent) ==
  /\ {"page", "per_page", "sort_by"} \subseteq DOMAIN r.params
  /\ r.params["page"] = NumToString(r.pageNum)
  /\ r.params["per_page"] = "20"
  /\ r.params["sort_by"] = filters.sort_by
  /\ \A f \in StringFilters :
       /\ (f \in DOMAIN r.params) <=> (filters[f] # "")
       /\ (f \in DOMAIN r.params) => r.params[f] = filters[f]
  /\ ("min_rating" \in DOMAIN r.params) <=> minRatingSent
  /\ ("min_rating" \in DOMAIN r.params)
       => r.params["min_rating"] = NumToString(filters.min_rating[1])
  /\ DOMAIN r.params \subseteq {"page", "per_page", "sort_by", "min_rating"} \cup StringFilters

\* C22: every properties request of the listings screen carries page,
\* per_page and sort_by, and each of search, location, sub_location, category
\* and min_rating exactly when the field is set (non-empty string, non-null
\* number), with the values of the FilterState it was issued under: the one
\* in force when the step that issued it completes.
C22_ParamsCarrySetFilters ==
  /\ inflight = EmptyBag
  /\ [][\A r \in BagToSet(inflight') :
          CopiesIn(r, inflight') > CopiesIn(r, inflight)
            => (CarriesFilters(r, filters.min_rating # Null))']_vars

\* C22 witness: a page-2 request of the current filters is in flight that
\* carries search, location, sub_location and category and no min_rating.
C22_Witness ==
  \E r \in Pending :
    /\ r.gen = gen /\ r.pageNum = 2
    /\ filters.search = "hill" /\ filters.category = "Homestay"
    /\ filters.location = "Dooars" /\ filters.sub_location = "Chalsa"
    /\ StringFilters \subseteq DOMAIN r.params
    /\ r.params["sub_location"] = "Chalsa"
    /\ "min_rating" \notin DOMAIN r.params
    /\ filters.min_rating = Null

Digits == {"0", "1", "2", "3", "4", "5", "6", "7", "8", "9"}

\* The characters of s that belong to allowed, in their order.
RECURSIVE Keep(_, _)
Keep(s, allowed) ==
  IF s = << >> THEN << >>
  ELSE IF Head(s) \in allowed THEN << Head(s) >> \o Keep(Tail(s), allowed)
  ELSE Keep(Tail(s), allowed)

\* C23: the call handler opens tel: followed by the phone number with every
\* character other than a digit or '+' removed, and the WhatsApp handler uses
\* the phone number with every non-digit removed, '+' included; the kept
\* characters stay in their order.
C23_PhoneCleaning ==
  opened # Null =>
    /\ opened[1] = "tel:" => Tail(opened) = Keep(tappedPhone, Digits \cup {"+"})
    /\ opened[1] = "whatsapp://send?phone="
         => /\ Tail(opened) = Keep(tappedPhone, Digits)
            /\ \A i \in 2..Len(opened) : opened[i] # "+"

\* C23 witness: the call button was tapped for "+-9" and tel:+9 was opened.
C23_Witness ==
  /\ tappedPhone = << "+", "-", "9" >>
  /\ opened = << "tel:", "+", "9" >>

\* Every key a screen can hold expansion state for.
ExpansionKeys == Sections \cup LocationNames \cup {NodeKey(name) : name \in LocationNames}

\* This step flips entry key of the object that goes from prev to next and
\* leaves the expansion of every other entry as it was.
FlipsOnly(prev, next, key) ==
  /\ Expanded(next, key) = ~Expanded(prev, key)
  /\ \A k \in ExpansionKeys \ {key} : Expanded(next, k) = Expanded(prev, k)

\* C24: expansion state is per node. Every location node starts collapsed on
\* the location-home and listings screens while the listings 'location'
\* section starts expanded, and toggling one node or section flips only that
\* entry, leaving every other node and section as it was.
C24_ExpansionPerNode ==
  /\ \A name \in LocationNames :
       /\ ~Expanded(expandedLocations, name)
       /\ ~Expanded(expandedSections, NodeKey(name))
  /\ Expanded(expandedSections, "location")
  /\ [][/\ \A section \in Sections :
             toggleSection(section)
               => /\ FlipsOnly(expandedSections, expandedSections', section)
                  /\ expandedLocations' = expandedLocations
        /\ \A name \in LocationNames :
             /\ ToggleLocationNode(name)
                  => /\ FlipsOnly(expandedSections, expandedSections', NodeKey(name))
                     /\ expandedLocations' = expandedLocations
             /\ toggleLocationExpansion(name)
                  => /\ FlipsOnly(expandedLocations, expandedLocations', name)
                     /\ expandedSections' = expandedSections]_vars

\* C24 witness: on the listings screen one location node has been expanded and
\* the price section opened, the other node was expanded and collapsed again,
\* and the classification section was never touched.
C24_Witness ==
  /\ screen = "listings"
  /\ Expanded(expandedSections, "location_Dooars")
  /\ "location_Darjeeling Hills" \in DOMAIN expandedSections
  /\ ~Expanded(expandedSections, "location_Darjeeling Hills")
  /\ Expanded(expandedSections, "price")
  /\ Expanded(expandedSections, "location")
  /\ ~Expanded(expandedSections, "classification")

\* C25: clearFilters sets every FilterState field to its default (search,
\* location, sub_location and category empty, min_rating null, sort_by
\* reviews_desc) from any prior FilterState, and like any filter change
\* forces the page cursor to 1 and issues a page-1 fetch.
C25_ClearFiltersResets ==
  [][clearFilters =>
       /\ filters'.search = "" /\ filters'.location = ""
       /\ filters'.sub_location = "" /\ filters'.category = ""
       /\ filters'.min_rating = Null /\ filters'.sort_by = "reviews_desc"
       /\ page' = 1
       /\ \E r \in BagToSet(inflight') :
            /\ r.pageNum = 1 /\ r.gen = gen' /\ ~r.isRefresh
            /\ r.params = [page |-> "1", per_page |-> "20", sort_by |-> "reviews_desc"]
            /\ CopiesIn(r, inflight') = CopiesIn(r, inflight) + 1]_vars

\* C25 witness: the filters were cleared while the cursor stood on page 2 of
\* a search; the page-2 request of that search is still in flight next to
\* the page-1 request of the cleared filters.
C25_Witness ==
  /\ filters = clearedFilters /\ page = 1
  /\ \E old, new \in Pending :
       /\ old.gen = gen - 1 /\ old.pageNum = 2
       /\ "search" \in DOMAIN old.params
       /\ new.gen = gen /\ new.pageNum = 1 /\ "search" \notin DOMAIN new.params

\* C26: within one filter generation pages are applied without gaps: after a
\* failed request for page p (a failed page 1 included), the next loadMore
\* requests page p again and not p + 1.
C26_LoadMoreRetriesFailedPage ==
  [][(CursorPageFailed /\ HandleLoadMore /\ inflight' # inflight)
       => \E r \in BagToSet(inflight') : r.pageNum = page /\ r.gen = gen]_vars

\* C27: a busy flag reflects its own request: loading is true while a
\* non-refresh first-page properties request is in flight and refreshing is
\* true while a refresh request is in flight, whatever other request (a
\* next-page, an older first-page, the locations fetch) completes meanwhile.
C27_BusyFlagFollowsOwnRequest ==
  /\ (\E r \in Pending : r.pageNum = 1 /\ ~r.isRefresh) => loading
  /\ RefreshPending => refreshing

\* C28: each filter generation, the initial one at screen mount included,
\* issues exactly one page-1 properties request; mounting the listings screen
\* does not issue two identical first-page requests.
C28_OneFirstPageRequestPerGeneration ==
  [][(screen \in PagedScreens /\ gen' # gen)
       => \E r \in BagToSet(inflight') :
            /\ r.pageNum = 1 /\ r.gen = gen'
            /\ inflight' = inflight (+) SetToBag({r})]_vars

\* The property-home footer 'Loading more properties...' is rendered.
FooterShown == screen = "propertyHome" /\ ~(~loading \/ page = 1)

\* C29: on each paginated screen loading = true implies that the page cursor
\* is 1; hence the property-home footer is never displayed.
C29_LoadingOnlyOnFirstPage ==
  /\ (screen \in PagedScreens /\ loading) => page = 1
  /\ ~FooterShown

\* C29 witness: on the property-home screen the request for page 2 is in
\* flight, loading is false and the footer is not rendered.
C29_Witness ==
  /\ screen = "propertyHome"
  /\ page = 2 /\ ~loading
  /\ NextPagePending
  /\ ~FooterShown

====
